---- MODULE Spec2Model ----
(***************************************************************************)
(* Model of scripts/generate_audio_edge_tts.py: the batch driver `main`,   *)
(* the coroutine `generate_one`, and the file system, the speech service   *)
(* and the ffmpeg tool as far as the script drives them.                   *)
(*                                                                         *)
(* Representation.  A Python str that the script takes apart (the --only   *)
(* argument, which is stripped and compared with keys) is a sequence of    *)
(* tokens: " " is one whitespace character, any other token is a maximal   *)
(* run of non-whitespace characters.  A Path is the sequence of its        *)
(* components; str(path) joins them with "/".  Printed lines and the       *)
(* ffmpeg argument vector are built as strings, as the f-strings do.       *)
(* The narration literals are Chinese; each is written here as an ASCII    *)
(* gloss, distinct per entry (the script passes the text through opaquely).*)
(***************************************************************************)
EXTENDS Integers, Sequences, FiniteSets, TLC

VARIABLES
    args,       \* argparse.Namespace returned by parse_args()
    pc,         \* position of main()
    only,       \* main's local `only` (args.only stripped)
    tasks,      \* main's list `tasks`: the coroutine objects, in creation order
    cur,        \* index of the task the `for t in tasks` loop is at
    gpc,        \* gpc[i]: position of coroutine tasks[i]
    tmp_path,   \* tmp_path[i]: generate_one's local tmp_path of tasks[i]
    tmp_count,  \* number of names tempfile has handed out
    tmp_made,   \* every temporary file the run has created
    fs,         \* files that exist
    dirs,       \* directories that exist
    calls,      \* invocations of the speech service and of ffmpeg, in order
    fsops,      \* file-system operations of the run and its collaborators, in order
    stdout,     \* printed lines
    stderr,     \* message of the exception that ended the run
    exit_code   \* exit status of the process, None while it runs

vars == <<args, pc, only, tasks, cur, gpc, tmp_path, tmp_count, tmp_made,
          fs, dirs, calls, fsops, stdout, stderr, exit_code>>

None == "None"

----------------------------------------------------------------------------
(* Bounds of the explored inputs *)

\* most whitespace characters put on each side of the --only value
MaxPad == 1
\* the non-default --boost values tried are -BoostStep, 0 and BoostStep
BoostStep == 3

----------------------------------------------------------------------------
(* Module constants, lines 33-88 *)

OUT_BEGIN_DIR == <<"assets", "audio">>
OUT_END_DIR == <<"assets", "audio_end">>

DEFAULT_VOICE == "zh-CN-YunjianNeural"
DEFAULT_PITCH == "-20Hz"
DEFAULT_RATE == "-20%"
DEFAULT_VOLUME == "+100%"
DEFAULT_BOOST_DB == 10

TRAILING_SILENCE == [night |-> 5]

\* dicts keep insertion order: each table is the sequence of its items
BEGIN_TEXT == <<
    <<"night", "begin: dark, close your eyes">>,
    <<"night_end", "begin: dawn, three two one, open your eyes">>,
    <<"wolf", "begin: wolf open eyes, choose kill">>,
    <<"wolf_queen", "begin: wolf_queen open eyes, choose charm">>,
    <<"dark_wolf_king", "begin: dark_wolf_king open eyes, confirm shot">>,
    <<"nightmare", "begin: nightmare open eyes, choose block">>,
    <<"gargoyle", "begin: gargoyle open eyes, choose check">>,
    <<"wolf_robot", "begin: wolf_robot open eyes, choose learn">>,
    <<"guard", "begin: guard open eyes, choose protect">>,
    <<"witch", "begin: witch open eyes, choose potion">>,
    <<"hunter", "begin: hunter open eyes, confirm shot">>,
    <<"seer", "begin: seer open eyes, choose check">>,
    <<"magician", "begin: magician open eyes, choose swap">>,
    <<"psychic", "begin: psychic open eyes, choose check">>,
    <<"slacker", "begin: slacker open eyes, choose idol">>,
    <<"dreamcatcher", "begin: dreamcatcher open eyes, choose dream">>,
    <<"pure_white", "begin: pure_white open eyes, choose check">>,
    <<"wolf_witch", "begin: wolf_witch open eyes, choose check">> >>

END_TEXT == <<
    <<"wolf", "end: wolf close eyes">>,
    <<"wolf_queen", "end: wolf_queen close eyes">>,
    <<"dark_wolf_king", "end: dark_wolf_king close eyes">>,
    <<"nightmare", "end: nightmare close eyes">>,
    <<"gargoyle", "end: gargoyle close eyes">>,
    <<"wolf_robot", "end: wolf_robot close eyes">>,
    <<"guard", "end: guard close eyes">>,
    <<"witch", "end: witch close eyes">>,
    <<"hunter", "end: hunter close eyes">>,
    <<"seer", "end: seer close eyes">>,
    <<"magician", "end: magician close eyes">>,
    <<"psychic", "end: psychic close eyes">>,
    <<"slacker", "end: slacker close eyes">>,
    <<"dreamcatcher", "end: dreamcatcher close eyes">>,
    <<"pure_white", "end: pure_white close eyes">>,
    <<"wolf_witch", "end: wolf_witch close eyes">> >>

----------------------------------------------------------------------------
(* Built-ins the script uses *)

Range(s) == {s[i] : i \in 1..Len(s)}

Keys(table) == {table[i][1] : i \in 1..Len(table)}

\* str.strip(): drop leading and trailing whitespace characters
RECURSIVE lstrip(_)
lstrip(s) == IF s # <<>> /\ Head(s) = " " THEN lstrip(Tail(s)) ELSE s

RECURSIVE rstrip(_)
rstrip(s) ==
    IF s # <<>> /\ s[Len(s)] = " " THEN rstrip(SubSeq(s, 1, Len(s) - 1)) ELSE s

strip(s) == rstrip(lstrip(s))

\* the str a key literal is
Str(key) == <<key>>

\* repr() of a token-sequence string, for the SystemExit message
RECURSIVE Flat(_)
Flat(s) == IF s = <<>> THEN "" ELSE Head(s) \o Flat(Tail(s))

\* sep.join(parts)
RECURSIVE join(_, _)
join(sep, parts) ==
    IF parts = <<>> THEN ""
    ELSE IF Len(parts) = 1 THEN parts[1]
    ELSE parts[1] \o sep \o join(sep, Tail(parts))

\* str(path)
PathStr(p) == join("/", p)

\* dir / name
PathJoin(dir, name) == Append(dir, name)

\* path.parent
Parent(p) == SubSeq(p, 1, Len(p) - 1)

\* path.mkdir(parents=True, exist_ok=True)
mkdir_parents(ds, p) == ds \cup {SubSeq(p, 1, n) : n \in 1..Len(p)}

\* dict.get(key, default)
TRAILING_SILENCE_get(key, default) ==
    IF key \in DOMAIN TRAILING_SILENCE THEN TRAILING_SILENCE[key] ELSE default

----------------------------------------------------------------------------
(* generate_one, lines 111-166: the values it computes *)

\* lines 113-119: the parts a dry run lists after the output path
dry_run_parts(key, boost_db) ==
    LET silence == TRAILING_SILENCE_get(key, 0)
    IN  (IF silence # 0 THEN <<"+" \o ToString(silence) \o "s silence">> ELSE <<>>)
        \o (IF boost_db # 0 THEN <<"+" \o ToString(boost_db) \o "dB boost">> ELSE <<>>)

\* lines 119-120
dry_run_line(key, out_path, boost_db) ==
    LET parts == dry_run_parts(key, boost_db)
        suffix == IF parts # <<>> THEN " (" \o join(", ", parts) \o ")" ELSE ""
    IN  "[dry-run] -> " \o PathStr(out_path) \o suffix

needs_ffmpeg_always(silence_seconds, boost_db) == TRUE

needs_ffmpeg_silence_only(silence_seconds, boost_db) == silence_seconds > 0

\* line 126
needs_ffmpeg(silence_seconds, boost_db) == silence_seconds > 0 \/ boost_db > 0

\* lines 136-151: the argument vector handed to subprocess.run
ffmpeg_cmd(tmp, silence_seconds, boost_db, out_path) ==
    <<"ffmpeg", "-y", "-i", PathStr(tmp)>>
    \o (IF silence_seconds > 0
        THEN <<"-f", "lavfi", "-t", ToString(silence_seconds), "-i",
               "anullsrc=r=24000:cl=mono">>
             \o (LET boost_filter ==
                         IF boost_db # 0
                         THEN "volume=" \o ToString(boost_db) \o "dB" ELSE ""
                 IN  IF boost_filter # ""
                     THEN <<"-filter_complex",
                            "[0:a]" \o boost_filter
                            \o "[boosted];[boosted][1:a]concat=n=2:v=0:a=1">>
                     ELSE <<"-filter_complex", "[0:a][1:a]concat=n=2:v=0:a=1">>)
        ELSE <<"-af", "volume=" \o ToString(boost_db) \o "dB">>)
    \o <<"-b:a", "48k", PathStr(out_path)>>

\* lines 155-160
generated_line_ffmpeg(out_path, silence_seconds, boost_db) ==
    LET parts ==
            (IF silence_seconds # 0
             THEN <<"+" \o ToString(silence_seconds) \o "s silence">> ELSE <<>>)
            \o (IF boost_db # 0 THEN <<"+" \o ToString(boost_db) \o "dB">> ELSE <<>>)
    IN  "Generated " \o PathStr(out_path) \o " (" \o join(", ", parts) \o ")"

\* line 166
generated_line(out_path) == "Generated " \o PathStr(out_path)

\* lines 130-131: tempfile.NamedTemporaryFile(suffix=".mp3", delete=False) creates
\* a file under a name no other file has
NamedTemporaryFile(n) == <<"tmp", "tmp" \o ToString(n) \o ".mp3">>

unlink_unless_raised(files, p, raised) == IF raised THEN files ELSE files \ {p}

\* lines 161-162: the finally clause runs whether or not the body raised
finally_unlink(files, p, raised) == files \ {p}

----------------------------------------------------------------------------
(* main, lines 169-208: the values it computes *)

\* lines 188-189 and 193-194: `if only and only != key: continue`
skipped(only_, key) == only_ # <<>> /\ only_ # Str(key)

task_never_dry(a, key, text, dir) ==
    [key |-> key, text |-> text, voice |-> a.voice, pitch |-> a.pitch,
     rate |-> a.rate, volume |-> a.volume,
     out_path |-> PathJoin(dir, key \o ".mp3"),
     dry_run |-> FALSE, boost_db |-> a.boost]

task_begin_dir(a, key, text, dir) ==
    [key |-> key, text |-> text, voice |-> a.voice, pitch |-> a.pitch,
     rate |-> a.rate, volume |-> a.volume,
     out_path |-> PathJoin(OUT_BEGIN_DIR, key \o ".mp3"),
     dry_run |-> a.dry_run, boost_db |-> a.boost]

\* lines 190 and 195: the arguments bound into the coroutine generate_one(...)
task(a, key, text, dir) ==
    [key |-> key, text |-> text, voice |-> a.voice, pitch |-> a.pitch,
     rate |-> a.rate, volume |-> a.volume,
     out_path |-> PathJoin(dir, key \o ".mp3"),
     dry_run |-> a.dry_run, boost_db |-> a.boost]

\* one `for key, text in table.items()` loop, lines 187-190 or 192-195
RECURSIVE table_tasks(_, _, _, _)
table_tasks(a, only_, table, dir) ==
    IF table = <<>> THEN <<>>
    ELSE LET key == Head(table)[1]
             text == Head(table)[2]
         IN  (IF skipped(only_, key) THEN <<>> ELSE <<task(a, key, text, dir)>>)
             \o table_tasks(a, only_, Tail(table), dir)

build_tasks_end_first(a, only_) ==
    table_tasks(a, only_, END_TEXT, OUT_END_DIR)
    \o table_tasks(a, only_, BEGIN_TEXT, OUT_BEGIN_DIR)

build_tasks_unfiltered(a, only_) ==
    table_tasks(a, <<>>, BEGIN_TEXT, OUT_BEGIN_DIR)
    \o table_tasks(a, <<>>, END_TEXT, OUT_END_DIR)

\* lines 185-195
build_tasks(a, only_) ==
    table_tasks(a, only_, BEGIN_TEXT, OUT_BEGIN_DIR)
    \o table_tasks(a, only_, END_TEXT, OUT_END_DIR)

no_tasks_never(ts) == FALSE

\* line 197: `if not tasks`
no_tasks(ts) == ts = <<>>

after_raise_continue(i) == [pc |-> "loop", cur |-> i + 1]

\* lines 201-202: an exception raised by `await t` is not caught: it leaves the
\* loop and main
after_raise(i) == [pc |-> "raised", cur |-> i]

----------------------------------------------------------------------------
(* Inputs *)

Spaces(n) == [i \in 1..n |-> " "]

AllKeys == Keys(BEGIN_TEXT) \cup Keys(END_TEXT)

\* values of --only: nothing, a key, a word that is no key, two words
OnlyBodies ==
    {<<>>, <<"night", " ", "end">>}
    \cup {Str(w) : w \in AllKeys \cup {"villager", "Night", "wolf_"}}

OnlyValues ==
    {Spaces(l) \o b \o Spaces(r) : l \in 0..MaxPad, r \in 0..MaxPad, b \in OnlyBodies}

BoostValues == {0 - BoostStep, 0, BoostStep, DEFAULT_BOOST_DB}

\* parse_args, lines 91-101
parse_args ==
    [voice : {DEFAULT_VOICE}, pitch : {DEFAULT_PITCH}, rate : {DEFAULT_RATE},
     volume : {DEFAULT_VOLUME}, boost : BoostValues, only : OnlyValues,
     dry_run : BOOLEAN, list_voices : BOOLEAN]

AllOutPaths ==
    {PathJoin(OUT_BEGIN_DIR, k \o ".mp3") : k \in Keys(BEGIN_TEXT)}
    \cup {PathJoin(OUT_END_DIR, k \o ".mp3") : k \in Keys(END_TEXT)}

\* the assets are either not generated yet or left by an earlier run
Init ==
    /\ args \in parse_args
    /\ pc = "start"
    /\ only = <<>>
    /\ tasks = <<>>
    /\ cur = 0
    /\ gpc = <<>>
    /\ tmp_path = <<>>
    /\ tmp_count = 0
    /\ tmp_made = {}
    /\ \/ fs = {} /\ dirs = {}
       \/ fs = AllOutPaths
          /\ dirs = mkdir_parents(mkdir_parents({}, OUT_BEGIN_DIR), OUT_END_DIR)
    /\ calls = <<>>
    /\ fsops = <<>>
    /\ stdout = <<>>
    /\ stderr = None
    /\ exit_code = None

----------------------------------------------------------------------------
(* Records of what the run does to its collaborators *)

SynthCall(i, t, dest) ==
    [op |-> "Communicate.save", req |-> i, text |-> t.text, voice |-> t.voice,
     pitch |-> t.pitch, rate |-> t.rate, volume |-> t.volume,
     dest |-> dest, cmd |-> <<>>]

FfmpegCall(i, t, cmd) ==
    [op |-> "ffmpeg", req |-> i, text |-> "", voice |-> "", pitch |-> "",
     rate |-> "", volume |-> "", dest |-> t.out_path, cmd |-> cmd]

ListVoicesCall ==
    [op |-> "list_voices", req |-> 0, text |-> "", voice |-> "", pitch |-> "",
     rate |-> "", volume |-> "", dest |-> <<>>, cmd |-> <<>>]

FsOp(op, path, by, i) == [op |-> op, path |-> path, by |-> by, req |-> i]

\* the exception leaves generate_one and main; asyncio.run re-raises it and the
\* interpreter exits with status 1
Raise(i, msg) ==
    /\ gpc' = [gpc EXCEPT ![i] = "raised"]
    /\ tmp_path' = [tmp_path EXCEPT ![i] = None]
    /\ pc' = after_raise(i).pc
    /\ cur' = after_raise(i).cur
    /\ stderr' = msg
    /\ exit_code' = 1

\* generate_one returns; `await t` completes and the loop moves on
Return(i) ==
    /\ gpc' = [gpc EXCEPT ![i] = "done"]
    /\ tmp_path' = [tmp_path EXCEPT ![i] = None]
    /\ pc' = "loop"
    /\ cur' = i + 1
    /\ UNCHANGED <<stderr, exit_code>>

----------------------------------------------------------------------------
(* main *)

\* lines 172-174, up to the await of edge_tts.list_voices()
ListVoices ==
    /\ pc = "start"
    /\ args.list_voices
    /\ pc' = "list_voices"
    /\ calls' = Append(calls, ListVoicesCall)
    /\ UNCHANGED <<args, only, tasks, cur, gpc, tmp_path, tmp_count, tmp_made,
                   fs, dirs, fsops, stdout, stderr, exit_code>>

\* lines 105-108 and 174: the service answers; the zh-CN male voices are printed
ListVoicesOk ==
    /\ pc = "list_voices"
    /\ \E picks \in {<<>>, <<"zh-CN-YunjianNeural", "zh-CN-YunxiNeural">>} :
           stdout' = stdout \o picks
    /\ pc' = "returned"
    /\ exit_code' = 0
    /\ UNCHANGED <<args, only, tasks, cur, gpc, tmp_path, tmp_count, tmp_made,
                   fs, dirs, calls, fsops, stderr>>

\* line 105: the service call raises
ListVoicesFail ==
    /\ pc = "list_voices"
    /\ pc' = "raised"
    /\ stderr' = "edge_tts error"
    /\ exit_code' = 1
    /\ UNCHANGED <<args, only, tasks, cur, gpc, tmp_path, tmp_count, tmp_made,
                   fs, dirs, calls, fsops, stdout>>

\* lines 176-198: no suspension point between them
BuildTasks ==
    /\ pc = "start"
    /\ ~args.list_voices
    /\ LET only_ == strip(args.only)
           boost == args.boost
           ts == build_tasks(args, only_)
       IN  /\ only' = only_
           /\ stdout' =
                  IF boost # 0
                  THEN Append(stdout,
                              "Post-processing: ffmpeg volume boost +"
                              \o ToString(boost) \o "dB")
                  ELSE stdout
           /\ tasks' = ts
           /\ gpc' = [i \in 1..Len(ts) |-> "created"]
           /\ tmp_path' = [i \in 1..Len(ts) |-> None]
           /\ IF no_tasks(ts)
              THEN /\ pc' = "raised"
                   /\ stderr' = "No tasks to run (only='" \o Flat(only_) \o "')."
                   /\ exit_code' = 1
                   /\ cur' = cur
              ELSE /\ pc' = "loop"
                   /\ cur' = 1
                   /\ UNCHANGED <<stderr, exit_code>>
    /\ UNCHANGED <<args, tmp_count, tmp_made, fs, dirs, calls, fsops>>

\* lines 204-208: the loop is exhausted
Finish ==
    /\ pc = "loop"
    /\ cur > Len(tasks)
    /\ stdout' =
           IF ~args.dry_run
           THEN stdout \o <<"Done.", "Generated:",
                            "  " \o PathStr(OUT_BEGIN_DIR),
                            "  " \o PathStr(OUT_END_DIR)>>
           ELSE stdout
    /\ pc' = "returned"
    /\ exit_code' = 0
    /\ UNCHANGED <<args, only, tasks, cur, gpc, tmp_path, tmp_count, tmp_made,
                   fs, dirs, calls, fsops, stderr>>

----------------------------------------------------------------------------
(* `await t` (line 202) runs generate_one; each action below goes from one *)
(* suspension point of the coroutine to the next                           *)

\* line 202: the loop is at tasks[i] and nothing is being awaited
AtTask(i) ==
    /\ pc = "loop"
    /\ i = cur
    /\ i \in 1..Len(tasks)
    /\ gpc[i] = "created"

\* lines 112-121: a dry run prints its line and returns
DryRun(i) ==
    /\ AtTask(i)
    /\ tasks[i].dry_run
    /\ LET t == tasks[i]
       IN  stdout' = Append(stdout, dry_run_line(t.key, t.out_path, t.boost_db))
    /\ Return(i)
    /\ UNCHANGED <<args, only, tasks, tmp_count, tmp_made, fs, dirs, calls, fsops>>

\* lines 123-134: the post-processing path, up to the await of save(tmp_path)
BeginSaveTmp(i) ==
    /\ AtTask(i)
    /\ ~tasks[i].dry_run
    /\ LET t == tasks[i]
           silence_seconds == TRAILING_SILENCE_get(t.key, 0)
           tmp == NamedTemporaryFile(tmp_count + 1)
       IN  /\ needs_ffmpeg(silence_seconds, t.boost_db)
           /\ dirs' = mkdir_parents(dirs, Parent(t.out_path))
           /\ tmp_count' = tmp_count + 1
           /\ tmp_made' = tmp_made \cup {tmp}
           /\ fs' = fs \cup {tmp}
           /\ tmp_path' = [tmp_path EXCEPT ![i] = tmp]
           /\ fsops' = fsops \o <<FsOp("mkdir", Parent(t.out_path), "script", i),
                                  FsOp("create", tmp, "script", i)>>
           /\ calls' = Append(calls, SynthCall(i, t, tmp))
    /\ gpc' = [gpc EXCEPT ![i] = "save_tmp"]
    /\ pc' = "await"
    /\ UNCHANGED <<args, only, tasks, cur, stdout, stderr, exit_code>>

\* lines 123-128 and 164-165: the direct path, up to the await of save(out_path)
BeginSaveOut(i) ==
    /\ AtTask(i)
    /\ ~tasks[i].dry_run
    /\ LET t == tasks[i]
           silence_seconds == TRAILING_SILENCE_get(t.key, 0)
       IN  /\ ~needs_ffmpeg(silence_seconds, t.boost_db)
           /\ dirs' = mkdir_parents(dirs, Parent(t.out_path))
           /\ fsops' = Append(fsops, FsOp("mkdir", Parent(t.out_path), "script", i))
           /\ calls' = Append(calls, SynthCall(i, t, t.out_path))
    /\ gpc' = [gpc EXCEPT ![i] = "save_out"]
    /\ pc' = "await"
    /\ UNCHANGED <<args, only, tasks, cur, tmp_path, tmp_count, tmp_made, fs,
                   stdout, stderr, exit_code>>

\* lines 134-153: the speech is saved to tmp_path; the command is built and
\* subprocess.run starts ffmpeg
SaveTmpOk(i) ==
    /\ i \in 1..Len(tasks)
    /\ gpc[i] = "save_tmp"
    /\ LET t == tasks[i]
           silence_seconds == TRAILING_SILENCE_get(t.key, 0)
           cmd == ffmpeg_cmd(tmp_path[i], silence_seconds, t.boost_db, t.out_path)
       IN  /\ fsops' = Append(fsops, FsOp("write", tmp_path[i], "edge_tts", i))
           /\ calls' = Append(calls, FfmpegCall(i, t, cmd))
    /\ gpc' = [gpc EXCEPT ![i] = "ffmpeg"]
    /\ UNCHANGED <<args, pc, only, tasks, cur, tmp_path, tmp_count, tmp_made,
                   fs, dirs, stdout, stderr, exit_code>>

\* line 134 raises; lines 161-162 run; the exception propagates
SaveTmpFail(i) ==
    /\ i \in 1..Len(tasks)
    /\ gpc[i] = "save_tmp"
    /\ fs' = finally_unlink(fs, tmp_path[i], TRUE)
    /\ fsops' = IF fs' # fs
                THEN Append(fsops, FsOp("unlink", tmp_path[i], "script", i))
                ELSE fsops
    /\ Raise(i, "edge_tts error")
    /\ UNCHANGED <<args, only, tasks, tmp_count, tmp_made, dirs, calls, stdout>>

\* lines 153-162: ffmpeg exits 0 having written out_path; the line is printed;
\* the temporary file is unlinked; generate_one returns
FfmpegOk(i) ==
    /\ i \in 1..Len(tasks)
    /\ gpc[i] = "ffmpeg"
    /\ LET t == tasks[i]
           silence_seconds == TRAILING_SILENCE_get(t.key, 0)
       IN  /\ fs' = finally_unlink(fs \cup {t.out_path}, tmp_path[i], FALSE)
           /\ fsops' = Append(fsops, FsOp("write", t.out_path, "ffmpeg", i))
                       \o (IF tmp_path[i] \notin fs'
                           THEN <<FsOp("unlink", tmp_path[i], "script", i)>>
                           ELSE <<>>)
           /\ stdout' = Append(stdout,
                  generated_line_ffmpeg(t.out_path, silence_seconds, t.boost_db))
    /\ Return(i)
    /\ UNCHANGED <<args, only, tasks, tmp_count, tmp_made, dirs, calls>>

\* line 153 raises (ffmpeg missing, or a non-zero exit with check=True), with
\* out_path written in part or not at all; lines 161-162 run; the exception
\* propagates
FfmpegFail(i) ==
    /\ i \in 1..Len(tasks)
    /\ gpc[i] = "ffmpeg"
    /\ \E partial \in BOOLEAN :
           LET t == tasks[i]
           IN  /\ fs' = finally_unlink(IF partial THEN fs \cup {t.out_path} ELSE fs,
                                       tmp_path[i], TRUE)
               /\ fsops' = (IF partial
                            THEN Append(fsops, FsOp("write", t.out_path, "ffmpeg", i))
                            ELSE fsops)
                           \o (IF tmp_path[i] \notin fs'
                               THEN <<FsOp("unlink", tmp_path[i], "script", i)>>
                               ELSE <<>>)
    /\ Raise(i, "subprocess error")
    /\ UNCHANGED <<args, only, tasks, tmp_count, tmp_made, dirs, calls, stdout>>

\* lines 165-166: the speech is saved to out_path; the line is printed
SaveOutOk(i) ==
    /\ i \in 1..Len(tasks)
    /\ gpc[i] = "save_out"
    /\ LET t == tasks[i]
       IN  /\ fs' = fs \cup {t.out_path}
           /\ fsops' = Append(fsops, FsOp("write", t.out_path, "edge_tts", i))
           /\ stdout' = Append(stdout, generated_line(t.out_path))
    /\ Return(i)
    /\ UNCHANGED <<args, only, tasks, tmp_count, tmp_made, dirs, calls>>

\* line 165 raises, with out_path written in part or not at all
SaveOutFail(i) ==
    /\ i \in 1..Len(tasks)
    /\ gpc[i] = "save_out"
    /\ \E partial \in BOOLEAN :
           LET t == tasks[i]
           IN  /\ fs' = IF partial THEN fs \cup {t.out_path} ELSE fs
               /\ fsops' = IF partial
                           THEN Append(fsops, FsOp("write", t.out_path, "edge_tts", i))
                           ELSE fsops
    /\ Raise(i, "edge_tts error")
    /\ UNCHANGED <<args, only, tasks, tmp_count, tmp_made, dirs, calls, stdout>>

----------------------------------------------------------------------------

Next ==
    \/ ListVoices
    \/ ListVoicesOk
    \/ ListVoicesFail
    \/ BuildTasks
    \/ Finish
    \/ \E i \in 1..Len(tasks) :
        \/ DryRun(i)
        \/ BeginSaveTmp(i)
        \/ BeginSaveOut(i)
        \/ SaveTmpOk(i)
        \/ SaveTmpFail(i)
        \/ FfmpegOk(i)
        \/ FfmpegFail(i)
        \/ SaveOutOk(i)
        \/ SaveOutFail(i)

Spec == Init /\ [][Next]_vars

----------------------------------------------------------------------------
(* Vocabulary of the properties, stated on the inputs and the observable   *)
(* effects rather than on the script's intermediate values                 *)

\* the run generates (it was not asked to list voices) and has built its tasks
Generating == ~args.list_voices /\ pc # "start"

Terminated == pc \in {"returned", "raised"}

\* --only is empty or whitespace: no filter
FilterBlank == \E n \in 0..(2 * MaxPad) : args.only = Spaces(n)

\* --only is the key k, possibly padded with whitespace
FilterIs(k) ==
    \E l \in 0..MaxPad, r \in 0..MaxPad : args.only = Spaces(l) \o <<k>> \o Spaces(r)

\* --only is not blank and is no key of either table
FilterAbsent == ~FilterBlank /\ \A k \in AllKeys : ~FilterIs(k)

\* the keys of a table that the filter selects
SelectedIn(table) == {k \in Keys(table) : FilterBlank \/ FilterIs(k)}

Requests == 1..Len(tasks)

CallsOf(i, op) == {n \in 1..Len(calls) : calls[n].req = i /\ calls[n].op = op}

FsOpsOf(i, op) == {n \in 1..Len(fsops) : fsops[n].req = i /\ fsops[n].op = op}

\* the writes to final output paths
OutWrites == {n \in 1..Len(fsops) : fsops[n].op = "write" /\ fsops[n].path \in AllOutPaths}

InProgress == {i \in Requests : gpc[i] \in {"save_tmp", "ffmpeg", "save_out"}}

Started(i) == gpc[i] # "created"

\* position of key k in a table
Pos(table, k) == CHOOSE n \in 1..Len(table) : table[n][1] = k

NumTables(k) ==
    (IF k \in Keys(BEGIN_TEXT) THEN 1 ELSE 0) + (IF k \in Keys(END_TEXT) THEN 1 ELSE 0)

\* the ffmpeg command applies a gain filter / appends a silence segment
IsGainArg(a, boost_db) ==
    \/ a = "volume=" \o ToString(boost_db) \o "dB"
    \/ a = "[0:a]volume=" \o ToString(boost_db)
           \o "dB[boosted];[boosted][1:a]concat=n=2:v=0:a=1"

HasGain(cmd, boost_db) == \E a \in Range(cmd) : IsGainArg(a, boost_db)

HasSilence(cmd) == "anullsrc=r=24000:cl=mono" \in Range(cmd)

----------------------------------------------------------------------------
(* C1 *)

\* C1 as stated: for every key k of the begin table or of the end table, a
\* generating run with --only k queues exactly one generation request.
C1_ExactlyOneRequest ==
    \A k \in AllKeys : (Generating /\ FilterIs(k)) => Len(tasks) = 1

\* C1 amended: for every key k of either table, a generating run with --only k
\* queues one request per table that holds k - the begin entry first, written
\* under the begin directory, then the end entry under the end directory - so
\* two requests when k is in both tables and one when it is in one only.
C1_OneRequestPerTable ==
    \A k \in AllKeys :
        (Generating /\ FilterIs(k)) =>
            /\ Len(tasks) = NumTables(k)
            /\ \A i \in Requests : tasks[i].key = k
            /\ k \in Keys(BEGIN_TEXT) =>
                   /\ Parent(tasks[1].out_path) = OUT_BEGIN_DIR
                   /\ tasks[1].text = BEGIN_TEXT[Pos(BEGIN_TEXT, k)][2]
            /\ k \in Keys(END_TEXT) =>
                   /\ Parent(tasks[Len(tasks)].out_path) = OUT_END_DIR
                   /\ tasks[Len(tasks)].text = END_TEXT[Pos(END_TEXT, k)][2]

C1_Witness ==
    /\ Generating
    /\ args.only = <<" ", "wolf">>
    /\ Len(tasks) = 2
    /\ gpc[2] = "done"

----------------------------------------------------------------------------
(* C2 *)

\* C2: when --only, stripped, is not empty and is a key of neither table, a
\* generating run queues no request and ends with SystemExit (a message, exit
\* status 1), and no synthesis call, no ffmpeg invocation, no directory creation
\* and no file write happens before that (or at all).
C2_AbsentFilterExits ==
    (FilterAbsent /\ ~args.list_voices) =>
        /\ calls = <<>>
        /\ fsops = <<>>
        /\ tmp_made = {}
        /\ fs \in {{}, AllOutPaths}
        /\ pc \in {"start", "raised"}
        /\ pc = "raised" =>
               /\ tasks = <<>>
               /\ exit_code = 1
               /\ stderr # None

C2_Witness ==
    /\ args.only = <<"villager", " ">>
    /\ ~args.list_voices
    /\ ~args.dry_run
    /\ args.boost = DEFAULT_BOOST_DB
    /\ pc = "raised"

----------------------------------------------------------------------------
(* C3 *)

\* the lines a generating dry run has printed once requests 1..n have run
DryRunOutput(n) ==
    (IF args.boost # 0
     THEN <<"Post-processing: ffmpeg volume boost +" \o ToString(args.boost) \o "dB">>
     ELSE <<>>)
    \o [i \in 1..n |->
            dry_run_line(tasks[i].key, tasks[i].out_path, tasks[i].boost_db)]

\* C3: in a dry run, whatever the filter and the boost, no synthesis call is
\* made, ffmpeg is not invoked, no temporary file, output directory or output
\* file is created or written in any state; and a generating dry run prints one
\* "[dry-run]" line per selected entry of the begin and end tables, in order,
\* and no "Generated"/"Done." line.
C3_DryRunOnlyPrints ==
    args.dry_run =>
        /\ \A n \in 1..Len(calls) : calls[n].op = "list_voices"
        /\ fsops = <<>>
        /\ tmp_made = {}
        /\ fs \in {{}, AllOutPaths}
        /\ Generating =>
               /\ Len(tasks) = Cardinality(SelectedIn(BEGIN_TEXT))
                               + Cardinality(SelectedIn(END_TEXT))
               /\ \A i \in Requests : tasks[i].dry_run
               /\ pc = "loop" => stdout = DryRunOutput(cur - 1)
               /\ Terminated => stdout = DryRunOutput(Len(tasks))

C3_Witness ==
    /\ args.dry_run
    /\ Generating
    /\ pc = "returned"
    /\ args.boost = DEFAULT_BOOST_DB
    /\ Len(tasks) = Len(BEGIN_TEXT) + Len(END_TEXT)
    /\ Len(stdout) = Len(tasks) + 1

----------------------------------------------------------------------------
(* C4 *)

\* C4: once a request that took the post-processing path has ended - by
\* returning, by a failed synthesis call or by a failed ffmpeg run - the
\* temporary file created for it does not exist; and when the run has ended,
\* completed or halted, no temporary file it created exists.
C4_TmpFilesRemoved ==
    /\ \A i \in Requests :
           gpc[i] \in {"done", "raised"} =>
               \A n \in FsOpsOf(i, "create") : fsops[n].path \notin fs
    /\ Terminated => tmp_made \cap fs = {}
    /\ \A i \in Requests :
           CallsOf(i, "ffmpeg") # {} => FsOpsOf(i, "create") # {}

C4_Witness ==
    /\ pc = "raised"
    /\ Len(tasks) > 1
    /\ gpc[1] = "done"
    /\ gpc[2] = "raised"
    /\ CallsOf(2, "ffmpeg") # {}
    /\ Cardinality(tmp_made) = 2
    /\ tasks[2].out_path \in fs

----------------------------------------------------------------------------
(* C5 *)

\* C5: at most one request is in progress (its synthesis call or its ffmpeg
\* run outstanding) in any state; a request has started only if every request
\* before it has completed, synthesis and post-processing included; and the
\* requests are started in the order of the begin table's entries followed by
\* the end table's entries.
C5_OneAtATimeInOrder ==
    /\ Cardinality(InProgress) <= 1
    /\ \A i \in Requests :
           Started(i) => \A j \in 1..(i - 1) : gpc[j] = "done"
    /\ \A i \in InProgress : pc = "await" /\ cur = i
    /\ \A n \in 1..Len(calls) :
           \A m \in 1..(n - 1) : calls[m].req <= calls[n].req
    /\ \A i \in Requests, j \in Requests :
           i < j =>
               LET di == Parent(tasks[i].out_path)
                   dj == Parent(tasks[j].out_path)
               IN  \/ di = OUT_BEGIN_DIR /\ dj = OUT_END_DIR
                   \/ /\ di = OUT_BEGIN_DIR /\ dj = OUT_BEGIN_DIR
                      /\ Pos(BEGIN_TEXT, tasks[i].key) < Pos(BEGIN_TEXT, tasks[j].key)
                   \/ /\ di = OUT_END_DIR /\ dj = OUT_END_DIR
                      /\ Pos(END_TEXT, tasks[i].key) < Pos(END_TEXT, tasks[j].key)

C5_Witness ==
    /\ Len(tasks) = Len(BEGIN_TEXT) + Len(END_TEXT)
    /\ gpc[Len(BEGIN_TEXT) + 1] = "ffmpeg"
    /\ gpc[Len(BEGIN_TEXT) + 2] = "created"
    /\ tasks[Len(BEGIN_TEXT) + 1].key = "wolf"

----------------------------------------------------------------------------
(* C6 *)

\* C6: when the synthesis call or ffmpeg fails in request i, the run is over
\* with the exception (exit status 1): request i had its synthesis call made
\* once and ffmpeg run at most once, no later request has started or has had a
\* synthesis call, an ffmpeg run or a file operation made for it, and "Done."
\* is not printed.
C6_FailureHaltsBatch ==
    \A i \in Requests :
        gpc[i] = "raised" =>
            /\ pc = "raised"
            /\ exit_code = 1
            /\ stderr # None
            /\ Cardinality(CallsOf(i, "Communicate.save")) = 1
            /\ Cardinality(CallsOf(i, "ffmpeg")) <= 1
            /\ \A j \in (i + 1)..Len(tasks) :
                   /\ gpc[j] = "created"
                   /\ \A n \in 1..Len(calls) : calls[n].req # j
                   /\ \A n \in 1..Len(fsops) : fsops[n].req # j
            /\ "Done." \notin Range(stdout)

C6_Witness ==
    /\ Len(tasks) > 3
    /\ gpc[1] = "done"
    /\ gpc[2] = "done"
    /\ gpc[3] = "raised"
    /\ CallsOf(3, "ffmpeg") = {}
    /\ tasks[3].boost_db = 0

----------------------------------------------------------------------------
(* C7 *)

\* C7: a request that is not a dry run, has boost 0 and a key with no trailing
\* silence configured never has ffmpeg invoked or a temporary file created for
\* it: once started, the synthesis service has been called exactly once for
\* it, writing to its final output path.
C7_DirectWhenNoPostProcessing ==
    \A i \in Requests :
        (/\ ~tasks[i].dry_run
         /\ tasks[i].boost_db = 0
         /\ tasks[i].key \notin DOMAIN TRAILING_SILENCE) =>
            /\ CallsOf(i, "ffmpeg") = {}
            /\ FsOpsOf(i, "create") = {}
            /\ tmp_path[i] = None
            /\ Started(i) =>
                   /\ Cardinality(CallsOf(i, "Communicate.save")) = 1
                   /\ \A n \in CallsOf(i, "Communicate.save") :
                          calls[n].dest = tasks[i].out_path
            /\ \A n \in FsOpsOf(i, "write") :
                   fsops[n].path = tasks[i].out_path /\ fsops[n].by = "edge_tts"
            /\ gpc[i] = "done" => Cardinality(FsOpsOf(i, "write")) = 1

C7_Witness ==
    /\ Len(tasks) = 1
    /\ tasks[1].key = "night_end"
    /\ ~tasks[1].dry_run
    /\ tasks[1].boost_db = 0
    /\ gpc[1] = "done"
    /\ pc = "returned"

----------------------------------------------------------------------------
(* C8 *)

\* C8 as stated: a request carries post-processing parameters (a trailing
\* silence, a gain boost) only when its key is "night"; a request for any other
\* key carries none and is not post-processed.
C8_OnlyNightPostProcessed ==
    \A i \in Requests :
        tasks[i].key # "night" =>
            /\ TRAILING_SILENCE_get(tasks[i].key, 0) = 0
            /\ tasks[i].boost_db = 0
            /\ CallsOf(i, "ffmpeg") = {}

\* C8 amended: only the request for "night" carries a trailing silence; the
\* gain boost is the run's --boost value (default 10 dB) and every request
\* carries it, whatever its key.  A request for "night" that is not a dry run is
\* always post-processed, with a silence segment appended; a request for any
\* other key is post-processed exactly when the boost is positive, and then
\* with the gain filter alone, no silence appended.
C8_BoostOnAllSilenceOnNight ==
    \A i \in Requests :
        /\ tasks[i].boost_db = args.boost
        /\ TRAILING_SILENCE_get(tasks[i].key, 0) # 0 <=> tasks[i].key = "night"
        /\ (Started(i) /\ ~tasks[i].dry_run) =>
               /\ Cardinality(CallsOf(i, "Communicate.save")) = 1
               /\ tasks[i].key = "night" =>
                      /\ gpc[i] # "save_out"
                      /\ \A n \in CallsOf(i, "Communicate.save") :
                             calls[n].dest # tasks[i].out_path
                      /\ \A n \in CallsOf(i, "ffmpeg") : HasSilence(calls[n].cmd)
                      /\ gpc[i] = "done" => CallsOf(i, "ffmpeg") # {}
               /\ tasks[i].key # "night" =>
                      /\ args.boost > 0 =>
                             /\ gpc[i] # "save_out"
                             /\ gpc[i] = "done" => CallsOf(i, "ffmpeg") # {}
                      /\ args.boost <= 0 => CallsOf(i, "ffmpeg") = {}
                      /\ \A n \in CallsOf(i, "ffmpeg") :
                             /\ ~HasSilence(calls[n].cmd)
                             /\ HasGain(calls[n].cmd, args.boost)
        /\ tasks[i].dry_run => CallsOf(i, "ffmpeg") = {}

C8_Witness ==
    /\ Len(tasks) > 3
    /\ args.boost = DEFAULT_BOOST_DB
    /\ tasks[1].key = "night"
    /\ tasks[3].key = "wolf"
    /\ gpc[3] = "done"
    /\ CallsOf(1, "ffmpeg") # {}
    /\ CallsOf(3, "ffmpeg") # {}

----------------------------------------------------------------------------
(* C9 *)

\* what the dry-run line of a request says
DryRunMentionsBoost(t) ==
    "+" \o ToString(t.boost_db) \o "dB boost" \in Range(dry_run_parts(t.key, t.boost_db))

DryRunMentionsSilence(t) ==
    \E secs \in 1..TRAILING_SILENCE.night :
        "+" \o ToString(secs) \o "s silence" \in Range(dry_run_parts(t.key, t.boost_db))

\* what the execution of the same request does when it is not a dry run
RunCmd(t) ==
    ffmpeg_cmd(NamedTemporaryFile(1), TRAILING_SILENCE_get(t.key, 0), t.boost_db,
               t.out_path)

RunUsesFfmpeg(t) == needs_ffmpeg(TRAILING_SILENCE_get(t.key, 0), t.boost_db)

RunAppliesGain(t) == RunUsesFfmpeg(t) /\ HasGain(RunCmd(t), t.boost_db)

RunAppendsSilence(t) == RunUsesFfmpeg(t) /\ HasSilence(RunCmd(t))

\* C9: for every request of a run, whatever the integer boost, its dry-run line
\* mentions a gain boost exactly when its execution applies a gain filter
\* through ffmpeg, and mentions trailing silence exactly when its execution
\* appends a silence segment.
C9_DryRunDescribesRun ==
    \A i \in Requests :
        /\ DryRunMentionsBoost(tasks[i]) <=> RunAppliesGain(tasks[i])
        /\ DryRunMentionsSilence(tasks[i]) <=> RunAppendsSilence(tasks[i])

----------------------------------------------------------------------------
(* C10 *)

\* C10: distinct requests of a run have distinct destinations, each
\* <key>.mp3 under the begin directory for a begin entry and under the end
\* directory for an end entry; a final output path is written at most once in a
\* run, by the request it belongs to, and by one writer: the synthesis service
\* on the direct path, ffmpeg on the post-processing path; and after a
\* generating run with no filter that is not a dry run and completes without
\* failure, every begin key and every end key has its output file, written
\* exactly once.
C10_OneWriterPerOutput ==
    /\ \A i \in Requests, j \in Requests :
           i # j => tasks[i].out_path # tasks[j].out_path
    /\ \A i \in Requests :
           \/ /\ tasks[i].out_path = PathJoin(OUT_BEGIN_DIR, tasks[i].key \o ".mp3")
              /\ tasks[i].key \in Keys(BEGIN_TEXT)
           \/ /\ tasks[i].out_path = PathJoin(OUT_END_DIR, tasks[i].key \o ".mp3")
              /\ tasks[i].key \in Keys(END_TEXT)
    /\ \A n \in OutWrites, m \in OutWrites :
           fsops[n].path = fsops[m].path => n = m
    /\ \A n \in OutWrites :
           LET i == fsops[n].req
           IN  /\ i \in Requests
               /\ fsops[n].path = tasks[i].out_path
               /\ fsops[n].by = IF CallsOf(i, "ffmpeg") # {} THEN "ffmpeg" ELSE "edge_tts"
               /\ \A c \in CallsOf(i, "Communicate.save") :
                      calls[c].dest = tasks[i].out_path <=> fsops[n].by = "edge_tts"
    /\ (Generating /\ ~args.dry_run /\ FilterBlank /\ pc = "returned") =>
           /\ {fsops[n].path : n \in OutWrites} = AllOutPaths
           /\ Cardinality(OutWrites) = Len(BEGIN_TEXT) + Len(END_TEXT)
           /\ fs = AllOutPaths

C10_Witness ==
    /\ Generating
    /\ ~args.dry_run
    /\ args.only = <<" ">>
    /\ args.boost = 0
    /\ pc = "returned"
    /\ Cardinality(OutWrites) = Cardinality(AllOutPaths)
    /\ \E n \in OutWrites : fsops[n].by = "ffmpeg"
    /\ \E n \in OutWrites : fsops[n].by = "edge_tts"

====
